---- MODULE Spec2Model ----
(***************************************************************************)
(* spongekit_core: largest-first roof selection, event hydrology, lifecycle *)
(* cost and the scenario table built from them.                            *)
(*                                                                         *)
(* Python floats are binary floating point numbers, and several results of *)
(* the code depend on how sums, products and quotients are rounded.  The   *)
(* model keeps that: a number is m * 2^e with |m| < 2^Precision, and every *)
(* arithmetic operation rounds its exact result to the nearest such number *)
(* (ties to even), as IEEE 754 does with 53 bits.                          *)
(***************************************************************************)
EXTENDS Integers, Sequences, FiniteSets, TLC

\* Bounds of the model.
Precision == 6
MaxRoofs == 3
MaxFracs == 2
MaxSteps == 2

---------------------------------------------------------------------------
\* Binary floating point, round to nearest even.

RECURSIVE Pow2(_)
Pow2(n) == IF n <= 0 THEN 1 ELSE 2 * Pow2(n - 1)

RECURSIVE BitLen(_)
BitLen(n) == IF n = 0 THEN 0 ELSE 1 + BitLen(n \div 2)

Abs(n) == IF n < 0 THEN -n ELSE n

Sign(n) == IF n < 0 THEN -1 ELSE 1

Fl(m, e) == [k |-> "fin", m |-> m, e |-> e]

NaN == [k |-> "nan", m |-> 0, e |-> 0]

PosInf == [k |-> "inf", m |-> 1, e |-> 0]

\* The canonical form of m * 2^e: m odd, or zero.
RECURSIVE Normal(_, _)
Normal(m, e) ==
  IF m = 0 THEN Fl(0, 0)
  ELSE IF m % 2 = 0 THEN Normal(m \div 2, e + 1)
  ELSE Fl(m, e)

\* m * 2^e rounded to Precision significant bits, ties to even.
RoundNearestEven(m, e) ==
  LET a == Abs(m)
      k == BitLen(a) - Precision
  IN IF k <= 0 THEN Normal(m, e)
     ELSE LET q == a \div Pow2(k)
              r == a % Pow2(k)
              half == Pow2(k - 1)
              up == r > half \/ (r = half /\ q % 2 = 1)
          IN Normal(Sign(m) * (IF up THEN q + 1 ELSE q), e + k)

FInt(n) == RoundNearestEven(n, 0)

Zero == Fl(0, 0)

One == Fl(1, 0)

\* The position of the leading bit: 2^(Top-1) <= |x| < 2^Top.
Top(x) == BitLen(Abs(x.m)) + x.e

\* -1, 0, 1 as x < y, x = y, x > y (exact).
Cmp(x, y) ==
  IF x.m = 0 \/ y.m = 0 \/ Sign(x.m) # Sign(y.m)
  THEN (IF x.m = y.m THEN 0
        ELSE IF x.m < y.m THEN -1 ELSE 1)
  ELSE IF Top(x) # Top(y)
  THEN (IF (Top(x) < Top(y)) = (x.m > 0) THEN -1 ELSE 1)
  ELSE LET e == IF x.e < y.e THEN x.e ELSE y.e
           a == x.m * Pow2(x.e - e)
           b == y.m * Pow2(y.e - e)
       IN IF a = b THEN 0 ELSE IF a < b THEN -1 ELSE 1

Lt(x, y) == Cmp(x, y) < 0

Le(x, y) == Cmp(x, y) <= 0

Gt(x, y) == Cmp(x, y) > 0

Ge(x, y) == Cmp(x, y) >= 0

\* Python's max(a, b) and min(a, b): the first argument unless the second
\* is strictly greater (smaller).
FMax(a, b) == IF Gt(b, a) THEN b ELSE a

FMin(a, b) == IF Lt(b, a) THEN b ELSE a

\* x + y.  An operand below a quarter of the other's last place does not
\* change the rounded sum.
FAdd(x, y) ==
  IF x.m = 0 THEN y
  ELSE IF y.m = 0 THEN x
  ELSE IF Top(x) - Top(y) > Precision + 2 THEN x
  ELSE IF Top(y) - Top(x) > Precision + 2 THEN y
  ELSE LET e == IF x.e < y.e THEN x.e ELSE y.e
       IN RoundNearestEven(x.m * Pow2(x.e - e) + y.m * Pow2(y.e - e), e)

FNeg(x) == Fl(-x.m, x.e)

FSub(x, y) == FAdd(x, FNeg(y))

FMul(x, y) ==
  IF x.m = 0 \/ y.m = 0 THEN Zero
  ELSE RoundNearestEven(x.m * y.m, x.e + y.e)

\* x / y for y # 0: the quotient to Precision + 2 bits and a sticky bit,
\* then rounded.
FDiv(x, y) ==
  IF y.m # 0 /\ x.m = 0 THEN Zero
  ELSE LET a == Abs(x.m)
           b == Abs(y.m)
           d == Precision + 2 + BitLen(b) - BitLen(a)
           s == IF d > 0 THEN d ELSE 0
           n == a * Pow2(s)
           q == n \div b
           sticky == IF n % b = 0 THEN 0 ELSE 1
       IN RoundNearestEven(Sign(x.m) * Sign(y.m) * (2 * q + sticky),
                           x.e - y.e - s - 1)

\* base ** n for an integer n, as libm's pow: here by rounded squaring and
\* multiplication, and the reciprocal for a negative exponent.
RECURSIVE FPowNat(_, _)
FPowNat(x, n) ==
  IF n = 0 THEN One
  ELSE LET h == FPowNat(x, n \div 2)
       IN IF n % 2 = 0 THEN FMul(h, h) ELSE FMul(FMul(h, h), x)

FPow(x, n) == IF n >= 0 THEN FPowNat(x, n) ELSE FDiv(One, FPowNat(x, -n))

\* The decimal literal n/d (n, d small integers), correctly rounded.
Lit(n, d) == FDiv(Fl(n, 0), Fl(d, 0))

---------------------------------------------------------------------------
\* pandas Series of floats: sequences of numbers and NaN.

FillNa(col) == [i \in DOMAIN col |-> IF col[i].k = "nan" THEN Zero ELSE col[i]]

\* The sum of the first n cells in order, NaN skipped.
RECURSIVE SumUpTo(_, _)
SumUpTo(col, n) ==
  IF n = 0 THEN Zero
  ELSE LET s == SumUpTo(col, n - 1)
       IN IF col[n].k = "nan" THEN s ELSE FAdd(s, col[n])

SeriesSum(col) == SumUpTo(col, Len(col))

CumSum(col) == [i \in DOMAIN col |-> IF col[i].k = "nan" THEN NaN ELSE SumUpTo(col, i)]

\* idxmax of a boolean Series: the first True, or the first label when
\* every cell is False.
IdxMax(mask) ==
  IF \E i \in DOMAIN mask : mask[i]
  THEN CHOOSE i \in DOMAIN mask : mask[i] /\ \A j \in 1..(i - 1) : ~mask[j]
  ELSE 1

RowOrders(n) == {p \in [1..n -> 1..n] : \A i, j \in 1..n : p[i] = p[j] => i = j}

\* Faulty variant: the rows sorted smallest-first.
AscOrders(col) ==
  {p \in RowOrders(Len(col)) :
     \A i, j \in 1..Len(col) :
        i < j => \/ col[p[j]].k = "nan"
                 \/ (col[p[i]].k # "nan" /\ Le(col[p[i]], col[p[j]]))}

\* sort_values("area_m2", ascending=False): the row orders with the areas
\* non-increasing and NaN last.  The default sort is not stable, so rows of
\* equal area come in any order.
DescOrders(col) ==
  {p \in RowOrders(Len(col)) :
     \A i, j \in 1..Len(col) :
        i < j => \/ col[p[j]].k = "nan"
                 \/ (col[p[i]].k # "nan" /\ Ge(col[p[i]], col[p[j]]))}

---------------------------------------------------------------------------
\* scenarios.py

\* Faulty variant: the sum of the areas is not checked.
ValidateWithoutSum(fr) ==
  IF ~fr.has_area THEN "ValueError: no area_m2 column"
  ELSE IF ~fr.numeric THEN "ValueError: area_m2 not numeric"
  ELSE "ok"

\* _validate_area_column: "ok", or what the ValueError is about.
ValidateAreaColumn(fr) ==
  IF ~fr.has_area THEN "ValueError: no area_m2 column"
  ELSE IF ~fr.numeric THEN "ValueError: area_m2 not numeric"
  ELSE IF Le(SeriesSum(FillNa(fr.area)), Zero) THEN "ValueError: area_m2 total not positive"
  ELSE "ok"

\* Faulty variant: no early return for a target of zero.
SelectWithoutEarlyReturn(fr, fraction, ord) ==
  LET f == FMax(Zero, FMin(One, fraction))
      total == SeriesSum(FillNa(fr.area))
      target == FMul(f, total)
      ordered == [i \in DOMAIN ord |-> fr.area[ord[i]]]
      csum == CumSum(ordered)
      mask == [i \in DOMAIN csum |-> csum[i].k # "nan" /\ Ge(csum[i], target)]
  IN [selected |-> SubSeq(ord, 1, IdxMax(mask)), target |-> target, total |-> total]

\* select_green_roofs_by_fraction past its validation, with ord the row
\* order sort_values produced.  selected holds the chosen rows as positions
\* in the input.
SelectGreenRoofsByFraction(fr, fraction, ord) ==
  LET f == FMax(Zero, FMin(One, fraction))
      total == SeriesSum(FillNa(fr.area))
      target == FMul(f, total)
  IN IF Le(target, Zero)
     THEN [selected |-> <<>>, target |-> Zero, total |-> total]
     ELSE LET ordered == [i \in DOMAIN ord |-> fr.area[ord[i]]]
              csum == CumSum(ordered)
              mask == [i \in DOMAIN csum |-> csum[i].k # "nan" /\ Ge(csum[i], target)]
              idx == IdxMax(mask)
          IN [selected |-> SubSeq(ord, 1, idx), target |-> target, total |-> total]

---------------------------------------------------------------------------
\* rainfall.py

Thousand == FInt(1000)

Hundred == FInt(100)

\* The thresholds 1e-12 and 1e-9, to the model's precision.
Eps12 == FDiv(One, FMul(FInt(1000000), FInt(1000000)))

Eps9 == FDiv(One, FInt(1000000000))

DepthSplit(P, R) == [retained |-> FMin(P, R), overflow |-> FMax(Zero, FSub(P, R))]

\* One pass of the hyetograph loop: st is (capacity, retained_sum,
\* overflow_sum) before the step of intensity mm_per_min.
HyetoStep(st, mm_per_min) ==
  LET step0 == FMax(Zero, mm_per_min)
      fill == Gt(st.capacity, Eps12)
      take == IF fill THEN FMin(step0, st.capacity) ELSE Zero
      step1 == IF fill THEN FSub(step0, take) ELSE step0
  IN [capacity |-> IF fill THEN FSub(st.capacity, take) ELSE st.capacity,
      retained_sum |-> IF fill THEN FAdd(st.retained_sum, take) ELSE st.retained_sum,
      overflow_sum |-> IF Gt(step1, Zero) THEN FAdd(st.overflow_sum, step1)
                       ELSE st.overflow_sum]

RECURSIVE HyetoLoop(_, _, _)
HyetoLoop(st, hyeto, n) ==
  IF n = 0 THEN st ELSE HyetoStep(HyetoLoop(st, hyeto, n - 1), hyeto[n][2])

\* event_result_depths.  hyeto is a sequence of <<minute, mm_per_min>>; an
\* absent series (None) is the empty sequence, which the code treats alike.
EventResultDepths(mode, P_mm, R_mm, hyeto) ==
  LET P == FMax(Zero, P_mm)
      R == FMax(Zero, R_mm)
  IN IF mode = "depth" THEN DepthSplit(P, R)
     ELSE IF mode = "hyetograph"
     THEN (IF hyeto = <<>> THEN DepthSplit(P, R)
           ELSE LET end == HyetoLoop([capacity |-> R, retained_sum |-> Zero,
                                      overflow_sum |-> Zero], hyeto, Len(hyeto))
                IN [retained |-> FMin(end.retained_sum, R),
                    overflow |-> end.overflow_sum])
     ELSE DepthSplit(P, R)

---------------------------------------------------------------------------
\* hydro.py

BaselineRunoff(P_mm, C_roof, A_total_m2) ==
  LET P == FMax(Zero, P_mm)
      C == FMin(One, FMax(Zero, C_roof))
      A == FMax(Zero, A_total_m2)
  IN FMul(FMul(FDiv(P, Thousand), C), A)

\* Faulty variant: the overflow of the green roofs taken over the whole
\* area.
ScenarioGreenOnTotalArea(mode, P_mm, R_mm, C_roof, Cg_, A_total_m2, A_green_m2, hyeto) ==
  LET P == FMax(Zero, P_mm)
      R == FMax(Zero, R_mm)
      C == FMin(One, FMax(Zero, C_roof))
      Cg == FMin(One, FMax(Zero, Cg_))
      A_total == FMax(Zero, A_total_m2)
      A_green == FMin(A_total, FMax(Zero, A_green_m2))
      V_base == BaselineRunoff(P, C, A_total)
      split == EventResultDepths(mode, P, R, hyeto)
      V_green == FMul(FMul(FDiv(split.overflow, Thousand), Cg), A_total)
      A_rest == FMax(Zero, FSub(A_total, A_green))
      V_rest == FMul(FMul(FDiv(P, Thousand), C), A_rest)
      V_scn == FAdd(V_green, V_rest)
  IN [V_scn |-> V_scn, retained_m3 |-> FMax(Zero, FSub(V_base, V_scn))]

\* Faulty variant: the green area floored at zero but not capped at the
\* total area.
ScenarioGreenNotCapped(mode, P_mm, R_mm, C_roof, Cg_, A_total_m2, A_green_m2, hyeto) ==
  LET P == FMax(Zero, P_mm)
      R == FMax(Zero, R_mm)
      C == FMin(One, FMax(Zero, C_roof))
      Cg == FMin(One, FMax(Zero, Cg_))
      A_total == FMax(Zero, A_total_m2)
      A_green == FMax(Zero, A_green_m2)
      V_base == BaselineRunoff(P, C, A_total)
      split == EventResultDepths(mode, P, R, hyeto)
      V_green == FMul(FMul(FDiv(split.overflow, Thousand), Cg), A_green)
      A_rest == FMax(Zero, FSub(A_total, A_green))
      V_rest == FMul(FMul(FDiv(P, Thousand), C), A_rest)
      V_scn == FAdd(V_green, V_rest)
  IN [V_scn |-> V_scn, retained_m3 |-> FMax(Zero, FSub(V_base, V_scn))]

ScenarioRunoffGreenRoofs(mode, P_mm, R_mm, C_roof, Cg_, A_total_m2, A_green_m2, hyeto) ==
  LET P == FMax(Zero, P_mm)
      R == FMax(Zero, R_mm)
      C == FMin(One, FMax(Zero, C_roof))
      Cg == FMin(One, FMax(Zero, Cg_))
      A_total == FMax(Zero, A_total_m2)
      A_green == FMin(A_total, FMax(Zero, A_green_m2))
      V_base == BaselineRunoff(P, C, A_total)
      split == EventResultDepths(mode, P, R, hyeto)
      V_green == FMul(FMul(FDiv(split.overflow, Thousand), Cg), A_green)
      A_rest == FMax(Zero, FSub(A_total, A_green))
      V_rest == FMul(FMul(FDiv(P, Thousand), C), A_rest)
      V_scn == FAdd(V_green, V_rest)
  IN [V_scn |-> V_scn, retained_m3 |-> FMax(Zero, FSub(V_base, V_scn))]

\* Faulty variant: years not floored at 1.
CostsYearsNotFloored(A_green_m2, unit_cost, opex_rate, years, discount) ==
  LET A == FMax(Zero, A_green_m2)
      u == FMax(Zero, unit_cost)
      r == FMax(Zero, opex_rate)
      d == FMax(Zero, discount)
      capex == FMul(A, u)
      annual_opex == FMul(r, capex)
      npv_opex == IF Gt(d, Zero)
                  THEN FDiv(FMul(annual_opex, FSub(One, FPow(FAdd(One, d), -years))), d)
                  ELSE FMul(annual_opex, FInt(years))
  IN [capex |-> capex, npv_opex |-> npv_opex, lifetime_total |-> FAdd(capex, npv_opex)]

Costs(A_green_m2, unit_cost, opex_rate, years, discount) ==
  LET A == FMax(Zero, A_green_m2)
      u == FMax(Zero, unit_cost)
      r == FMax(Zero, opex_rate)
      n == IF years > 1 THEN years ELSE 1
      d == FMax(Zero, discount)
      capex == FMul(A, u)
      annual_opex == FMul(r, capex)
      npv_opex == IF Gt(d, Zero)
                  THEN FDiv(FMul(annual_opex, FSub(One, FPow(FAdd(One, d), -n))), d)
                  ELSE FMul(annual_opex, FInt(n))
  IN [capex |-> capex, npv_opex |-> npv_opex, lifetime_total |-> FAdd(capex, npv_opex)]

---------------------------------------------------------------------------
\* scenarios.py: build_green_roof_scenario_table

\* The cost arguments the table build passes to costs().
OpexRate == Lit(2, 100)

Years == 30

Discount == Lit(3, 100)

SelectedAreas(fr, selected) == [i \in DOMAIN selected |-> fr.area[selected[i]]]

\* Faulty variant: 0 in place of the infinity when there is no benefit.
ScenarioRowZeroCost(f, A_tot, V_b, A_green, scn, c) ==
  [coverage_frac |-> f,
   A_total_m2 |-> A_tot,
   A_green_m2 |-> A_green,
   V_baseline_m3 |-> V_b,
   V_scenario_m3 |-> scn.V_scn,
   retained_m3 |-> scn.retained_m3,
   reduction_pct |-> IF Gt(V_b, Eps12)
                     THEN FDiv(FMul(Hundred, FMax(Zero, FSub(V_b, scn.V_scn))), V_b)
                     ELSE Zero,
   capex |-> c.capex,
   npv_opex |-> c.npv_opex,
   lifetime_total |-> c.lifetime_total,
   cost_per_m3 |-> IF Gt(scn.retained_m3, Eps9)
                   THEN FDiv(c.lifetime_total, scn.retained_m3)
                   ELSE Zero]

\* Faulty variant: the reduction taken without the floor at zero.
ScenarioRowSignedReduction(f, A_tot, V_b, A_green, scn, c) ==
  [coverage_frac |-> f,
   A_total_m2 |-> A_tot,
   A_green_m2 |-> A_green,
   V_baseline_m3 |-> V_b,
   V_scenario_m3 |-> scn.V_scn,
   retained_m3 |-> scn.retained_m3,
   reduction_pct |-> IF Gt(V_b, Eps12)
                     THEN FDiv(FMul(Hundred, FSub(V_b, scn.V_scn)), V_b)
                     ELSE Zero,
   capex |-> c.capex,
   npv_opex |-> c.npv_opex,
   lifetime_total |-> c.lifetime_total,
   cost_per_m3 |-> IF Gt(scn.retained_m3, Eps9)
                   THEN FDiv(c.lifetime_total, scn.retained_m3)
                   ELSE PosInf]

\* The row appended for fraction f, from the loop body's locals: A_green,
\* scn = (V_scn, retained) and c = (capex, npv_opex, lifetime_total).
ScenarioRow(f, A_tot, V_b, A_green, scn, c) ==
  [coverage_frac |-> f,
   A_total_m2 |-> A_tot,
   A_green_m2 |-> A_green,
   V_baseline_m3 |-> V_b,
   V_scenario_m3 |-> scn.V_scn,
   retained_m3 |-> scn.retained_m3,
   reduction_pct |-> IF Gt(V_b, Eps12)
                     THEN FDiv(FMul(Hundred, FMax(Zero, FSub(V_b, scn.V_scn))), V_b)
                     ELSE Zero,
   capex |-> c.capex,
   npv_opex |-> c.npv_opex,
   lifetime_total |-> c.lifetime_total,
   cost_per_m3 |-> IF Gt(scn.retained_m3, Eps9)
                   THEN FDiv(c.lifetime_total, scn.retained_m3)
                   ELSE PosInf]

\* Faulty variant: the rows returned in the order they were appended.
UnsortedRows(rs) == {rs}

\* DataFrame(rows).sort_values("coverage_frac"): the arrangements of the
\* rows with coverage_frac non-decreasing (the default sort is not stable).
SortedByFrac(rs) ==
  {[i \in DOMAIN rs |-> rs[p[i]]] : p \in
     {q \in RowOrders(Len(rs)) :
        \A i, j \in 1..Len(rs) :
           i < j => Le(rs[q[i]].coverage_frac, rs[q[j]].coverage_frac)}}

---------------------------------------------------------------------------
\* The inputs the model draws from.

Cells == {NaN} \cup {FInt(n) : n \in {-20, 0, 5, 20, 50, 100}}

Columns == UNION {[1..n -> Cells] : n \in 0..MaxRoofs}

NoAreaFrame == [has_area |-> FALSE, numeric |-> FALSE, area |-> <<>>]

TextAreaFrame == [has_area |-> TRUE, numeric |-> FALSE, area |-> <<>>]

Frames ==
  {[has_area |-> TRUE, numeric |-> TRUE, area |-> a] : a \in Columns}
    \cup {NoAreaFrame, TextAreaFrame}

FracVals == {Lit(-1, 2), Zero, Lit(1, 10), Lit(1, 2), One, Lit(3, 2)}

\* The fractions of a table build: none of the area, half of it, and more
\* than all of it.
BuildFracs == {Zero, Lit(1, 2), Lit(3, 2)}

FracLists == UNION {[1..n -> BuildFracs] : n \in 0..MaxFracs}

Storm == <<<<0, FInt(10)>>, <<1, FInt(40)>>>>

Events ==
  { [mode |-> "depth", P_mm |-> FInt(50), C_roof |-> Lit(9, 10), R_mm |-> FInt(20),
     Cg |-> Lit(1, 4), hyeto |-> <<>>, unit_cost |-> FInt(150)],
    [mode |-> "hyetograph", P_mm |-> FInt(50), C_roof |-> Lit(9, 10), R_mm |-> FInt(60),
     Cg |-> Lit(1, 4), hyeto |-> Storm, unit_cost |-> FInt(150)],
    [mode |-> "depth", P_mm |-> Zero, C_roof |-> Lit(9, 10), R_mm |-> FInt(20),
     Cg |-> Lit(1, 4), hyeto |-> <<>>, unit_cost |-> FInt(150)],
    [mode |-> "depth", P_mm |-> FInt(50), C_roof |-> Lit(1, 4), R_mm |-> FInt(-20),
     Cg |-> Lit(3, 2), hyeto |-> <<>>, unit_cost |-> FInt(150)] }

---------------------------------------------------------------------------
\* State.

VARIABLES
  frame,    \* the caller's roof records (bldgs / df)
  frac,     \* select_green_roofs_by_fraction's frac argument
  fracs,    \* the table build's fracs argument
  event,    \* the table build's other arguments
  pc,       \* "select", "build", "loop", "returned", "raised"
  err,      \* the exception raised, "" when none
  sel,      \* what select_green_roofs_by_fraction last returned
  A_total,  \* build: total area
  V_base,   \* build: baseline volume
  order,    \* build: positions of fracs processed so far, in order
  rows,     \* build: the rows appended so far
  table,    \* build: the returned table
  args,     \* the arguments of a direct call of a rainfall.py / hydro.py function
  ret       \* what that call has computed so far, and returned at the end

vars == <<frame, frac, fracs, event, pc, err, sel, A_total, V_base, order, rows, table,
          args, ret>>

NoArgs == [fn |-> "none"]

NoRet == [fn |-> "none"]

NoSel == [selected |-> <<>>, target |-> Zero, total |-> Zero]

Range(q) == {q[i] : i \in DOMAIN q}

\* A direct call of select_green_roofs_by_fraction(frame, frac).
InitSelect ==
  /\ frame \in Frames
  /\ frac \in FracVals
  /\ fracs = <<>>
  /\ event \in {e \in Events : e.mode = "depth" /\ e.R_mm = FInt(20) /\ e.P_mm = Zero}
  /\ pc = "select"
  /\ err = ""
  /\ sel = NoSel
  /\ A_total = Zero
  /\ V_base = Zero
  /\ order = <<>>
  /\ rows = <<>>
  /\ table = <<>>
  /\ args = NoArgs
  /\ ret = NoRet

\* Faulty variant: the caller's frame sorted in place.
SelectSortingInPlace ==
  /\ pc = "select"
  /\ LET v == ValidateAreaColumn(frame)
     IN IF v # "ok"
        THEN pc' = "raised" /\ err' = v /\ sel' = sel /\ frame' = frame
        ELSE /\ \E ord \in DescOrders(frame.area) :
                  /\ sel' = SelectGreenRoofsByFraction(frame, frac, ord)
                  /\ frame' = [frame EXCEPT !.area = [i \in DOMAIN ord |-> frame.area[ord[i]]]]
             /\ pc' = "returned"
             /\ err' = err
  /\ UNCHANGED <<frac, fracs, event, A_total, V_base, order, rows, table, args, ret>>

Select ==
  /\ pc = "select"
  /\ LET v == ValidateAreaColumn(frame)
     IN IF v # "ok"
        THEN pc' = "raised" /\ err' = v /\ sel' = sel
        ELSE /\ \E ord \in DescOrders(frame.area) :
                  sel' = SelectGreenRoofsByFraction(frame, frac, ord)
             /\ pc' = "returned"
             /\ err' = err
  /\ UNCHANGED <<frame, frac, fracs, event, A_total, V_base, order, rows, table, args, ret>>

NextSelect == Select

SpecSelect == InitSelect /\ [][NextSelect]_vars

\* A call of build_green_roof_scenario_table(frame, event..., fracs).
Init ==
  /\ frame \in Frames
  /\ frac = Zero
  /\ fracs \in FracLists
  /\ event \in Events
  /\ pc = "build"
  /\ err = ""
  /\ sel = NoSel
  /\ A_total = Zero
  /\ V_base = Zero
  /\ order = <<>>
  /\ rows = <<>>
  /\ table = <<>>
  /\ args = NoArgs
  /\ ret = NoRet

\* Validation, totals and baseline.
BuildStart ==
  /\ pc = "build"
  /\ LET v == ValidateAreaColumn(frame)
     IN IF v # "ok"
        THEN pc' = "raised" /\ err' = v /\ A_total' = A_total /\ V_base' = V_base
        ELSE /\ pc' = "loop"
             /\ err' = err
             /\ A_total' = SeriesSum(frame.area)
             /\ V_base' = BaselineRunoff(event.P_mm, event.C_roof, SeriesSum(frame.area))
  /\ UNCHANGED <<frame, frac, fracs, event, sel, order, rows, table, args, ret>>

\* Faulty variant: the green area carried over from the row before.
IterationCarrying(i) ==
  /\ \E ord \in DescOrders(frame.area) :
     \E s \in {SelectGreenRoofsByFraction(frame, fracs[i], ord)} :
     \E A_green \in {FAdd(IF rows = <<>> THEN Zero ELSE rows[Len(rows)].A_green_m2,
                          SeriesSum(SelectedAreas(frame, s.selected)))} :
     \E scn \in {ScenarioRunoffGreenRoofs(event.mode, event.P_mm, event.R_mm, event.C_roof,
                                          event.Cg, A_total, A_green, event.hyeto)} :
     \E c \in {Costs(A_green, event.unit_cost, OpexRate, Years, Discount)} :
        /\ sel' = s
        /\ rows' = Append(rows, ScenarioRow(fracs[i], A_total, V_base, A_green, scn, c))
  /\ frac' = fracs[i]
  /\ order' = Append(order, i)
  /\ UNCHANGED <<frame, fracs, event, pc, err, A_total, V_base, table, args, ret>>

\* Faulty variant: the row reports the fraction clamped to [0, 1].
IterationReportingClamped(i) ==
  /\ \E ord \in DescOrders(frame.area) :
     \E s \in {SelectGreenRoofsByFraction(frame, fracs[i], ord)} :
     \E A_green \in {SeriesSum(SelectedAreas(frame, s.selected))} :
     \E scn \in {ScenarioRunoffGreenRoofs(event.mode, event.P_mm, event.R_mm, event.C_roof,
                                          event.Cg, A_total, A_green, event.hyeto)} :
     \E c \in {Costs(A_green, event.unit_cost, OpexRate, Years, Discount)} :
        /\ sel' = s
        /\ rows' = Append(rows, ScenarioRow(FMax(Zero, FMin(One, fracs[i])), A_total, V_base,
                                            A_green, scn, c))
  /\ frac' = fracs[i]
  /\ order' = Append(order, i)
  /\ UNCHANGED <<frame, fracs, event, pc, err, A_total, V_base, table, args, ret>>

\* The loop body for position i of fracs, statement by statement: each
\* local is bound to its value before the next statement uses it.
Iteration(i) ==
  /\ \E ord \in DescOrders(frame.area) :
     \E s \in {SelectGreenRoofsByFraction(frame, fracs[i], ord)} :
     \E A_green \in {SeriesSum(SelectedAreas(frame, s.selected))} :
     \E scn \in {ScenarioRunoffGreenRoofs(event.mode, event.P_mm, event.R_mm, event.C_roof,
                                          event.Cg, A_total, A_green, event.hyeto)} :
     \E c \in {Costs(A_green, event.unit_cost, OpexRate, Years, Discount)} :
        /\ sel' = s
        /\ rows' = Append(rows, ScenarioRow(fracs[i], A_total, V_base, A_green, scn, c))
  /\ frac' = fracs[i]
  /\ order' = Append(order, i)
  /\ UNCHANGED <<frame, fracs, event, pc, err, A_total, V_base, table, args, ret>>

\* for f in fracs: the next fraction in list order.
BuildIteration ==
  /\ pc = "loop"
  /\ Len(order) < Len(fracs)
  /\ Iteration(Len(order) + 1)

\* return pd.DataFrame(rows).sort_values("coverage_frac"): a frame built of
\* no rows has no coverage_frac column, and sorting by it raises KeyError.
BuildReturn ==
  /\ pc = "loop"
  /\ Len(order) = Len(fracs)
  /\ IF rows = <<>>
     THEN pc' = "raised" /\ err' = "KeyError: coverage_frac" /\ table' = table
     ELSE /\ table' \in SortedByFrac(rows)
          /\ pc' = "returned"
          /\ err' = err
  /\ UNCHANGED <<frame, frac, fracs, event, sel, A_total, V_base, order, rows, args, ret>>

Next == BuildStart \/ BuildIteration \/ BuildReturn

Spec == Init /\ [][Next]_vars

\* The same build with the fractions processed in any order.
AnyOrderIteration ==
  /\ pc = "loop"
  /\ \E i \in (1..Len(fracs)) \ Range(order) : Iteration(i)

NextAnyOrder == BuildStart \/ AnyOrderIteration \/ BuildReturn

SpecAnyOrder == Init /\ [][NextAnyOrder]_vars

\* A build whose fractions lie below, at and above the ends of [0, 1].
EndFracs == {Lit(-1, 2), Zero, One, Lit(3, 2)}

EndFracLists == UNION {[1..n -> EndFracs] : n \in 0..MaxFracs}

InitEnds ==
  /\ frame \in Frames
  /\ frac = Zero
  /\ fracs \in EndFracLists
  /\ event \in {e \in Events : Gt(e.P_mm, Zero) /\ Gt(e.R_mm, Zero)}
  /\ pc = "build"
  /\ err = ""
  /\ sel = NoSel
  /\ A_total = Zero
  /\ V_base = Zero
  /\ order = <<>>
  /\ rows = <<>>
  /\ table = <<>>
  /\ args = NoArgs
  /\ ret = NoRet

SpecEnds == InitEnds /\ [][Next]_vars

\* Calls of either function.
InitCalls == InitSelect \/ Init

NextCalls == Select \/ BuildStart \/ BuildIteration \/ BuildReturn

SpecCalls == InitCalls /\ [][NextCalls]_vars

---------------------------------------------------------------------------
\* Properties of select_green_roofs_by_fraction (SpecSelect).

\* The records pass _validate_area_column: a numeric area column whose sum
\* is strictly positive.
ValidRecords ==
  /\ frame.has_area
  /\ frame.numeric
  /\ Gt(SeriesSum(FillNa(frame.area)), Zero)

\* The area sum of the first n selected records.
SelectedSum(n) == SeriesSum(SelectedAreas(frame, SubSeq(sel.selected, 1, n)))

Unselected == (DOMAIN frame.area) \ Range(sel.selected)

\* C2: for a target above zero the selected areas sum to at least the
\* target, and without the last-selected record they sum to less than it.
C2_MinimalPrefix ==
  (pc = "returned" /\ Gt(sel.target, Zero)) =>
     /\ sel.selected # <<>>
     /\ Ge(SelectedSum(Len(sel.selected)), sel.target)
     /\ Lt(SelectedSum(Len(sel.selected) - 1), sel.target)

\* C3: the selection is a leading prefix of the records in descending order
\* of area: no selected record lacks an area, and each has an area at least
\* that of every record left out (a missing area counting as zero).
C3_LargestFirst ==
  pc = "returned" =>
     /\ \E ord \in DescOrders(frame.area) :
           sel.selected = SubSeq(ord, 1, Len(sel.selected))
     /\ \A i \in Range(sel.selected) :
           /\ frame.area[i].k # "nan"
           /\ \A j \in Unselected : Ge(frame.area[i], FillNa(frame.area)[j])

C3_Witness ==
  /\ pc = "returned"
  /\ Len(sel.selected) = 2
  /\ Unselected # {}
  /\ \E i \in Range(sel.selected), j \in Unselected :
        frame.area[j].k # "nan" /\ Gt(frame.area[i], frame.area[j])

\* C4: with a fraction of 1 or more the selection is the whole input, each
\* record once, and the target equals the total.
C4_FullInput ==
  (pc = "returned" /\ Ge(frac, One)) =>
     /\ Len(sel.selected) = Len(frame.area)
     /\ Range(sel.selected) = DOMAIN frame.area
     /\ sel.target = sel.total

\* C5: with a fraction of 0 or less the selection is empty, the target is 0
\* and the total is the sum of all areas.
C5_EmptySelection ==
  (pc = "returned" /\ Le(frac, Zero)) =>
     /\ sel.selected = <<>>
     /\ sel.target = Zero
     /\ sel.total = SeriesSum(FillNa(frame.area))

C5_Witness ==
  /\ pc = "returned"
  /\ Lt(frac, Zero)
  /\ Len(frame.area) = 3
  /\ sel.selected = <<>>
  /\ Gt(sel.total, Zero)

---------------------------------------------------------------------------
\* Properties of build_green_roof_scenario_table (Spec, SpecAnyOrder) and
\* of both functions (SpecCalls).

\* C1: every row of the returned table has retained_m3 >= 0 and
\* 0 <= reduction_pct <= 100.
C1_RowsInRange ==
  \A k \in DOMAIN table :
     /\ Ge(table[k].retained_m3, Zero)
     /\ Ge(table[k].reduction_pct, Zero)
     /\ Le(table[k].reduction_pct, Hundred)

\* C6: the area sum of a selection is at most the total area, and every
\* row has A_green_m2 <= A_total_m2.
C6_GreenWithinTotal ==
  /\ Le(SelectedSum(Len(sel.selected)), sel.total)
  /\ \A k \in DOMAIN rows : Le(rows[k].A_green_m2, rows[k].A_total_m2)

ValueErrors ==
  {"ValueError: no area_m2 column", "ValueError: area_m2 not numeric",
   "ValueError: area_m2 total not positive"}

\* C7: for records without an area column, with non-numeric areas or with
\* an area sum that is not strictly positive, a call of either function
\* ends in the ValueError with nothing computed: no selection, no totals,
\* no row and no table.
C7_InvalidInputAborts ==
  (~ValidRecords /\ pc \notin {"select", "build"}) =>
     /\ pc = "raised"
     /\ err \in ValueErrors
     /\ sel = NoSel
     /\ A_total = Zero
     /\ V_base = Zero
     /\ order = <<>>
     /\ rows = <<>>
     /\ table = <<>>

C7_Witness ==
  /\ pc = "raised"
  /\ err = "ValueError: area_m2 total not positive"
  /\ Len(frame.area) = 2
  /\ Len(fracs) = 2
  /\ rows = <<>>

\* C8: for records that pass validation the table build never raises.
C8_OnlyInvalidInputRaises == ValidRecords => pc # "raised"

\* C9: the returned table has one row per element of fracs, with the same
\* fractions as many times as fracs holds them, in ascending coverage_frac
\* order.
C9_OneRowPerFractionAscending ==
  pc = "returned" =>
     /\ Len(table) = Len(fracs)
     /\ \E p \in RowOrders(Len(fracs)) :
           \A k \in DOMAIN table : table[k].coverage_frac = fracs[p[k]]
     /\ \A j, k \in DOMAIN table :
           j < k => Le(table[j].coverage_frac, table[k].coverage_frac)

C9_Witness ==
  /\ pc = "returned"
  /\ Len(fracs) = 2
  /\ Gt(fracs[1], fracs[2])
  /\ table[1].coverage_frac = fracs[2]
  /\ table[2].coverage_frac = fracs[1]

\* C10: with the fractions processed in any order, every row of the
\* returned table is the row its own fraction yields from the shared inputs
\* alone, and the table is those rows in ascending coverage_frac order: the
\* table of the sequential build.
C10_OrderIndependent ==
  pc = "returned" =>
     /\ Len(table) = Len(fracs)
     /\ \A j, k \in DOMAIN table :
           j < k => Le(table[j].coverage_frac, table[k].coverage_frac)
     /\ \E p \in RowOrders(Len(fracs)) :
        \A k \in DOMAIN table :
           /\ table[k].coverage_frac = fracs[p[k]]
           /\ \A ord \in DescOrders(frame.area) :
              \E s \in {SelectGreenRoofsByFraction(frame, fracs[p[k]], ord)} :
              \E A_green \in {SeriesSum(SelectedAreas(frame, s.selected))} :
              \E scn \in {ScenarioRunoffGreenRoofs(event.mode, event.P_mm, event.R_mm,
                                                   event.C_roof, event.Cg, A_total, A_green,
                                                   event.hyeto)} :
              \E c \in {Costs(A_green, event.unit_cost, OpexRate, Years, Discount)} :
                 table[k] = ScenarioRow(fracs[p[k]], A_total, V_base, A_green, scn, c)

C10_Witness ==
  /\ pc = "returned"
  /\ order = <<2, 1>>
  /\ Lt(fracs[1], fracs[2])
  /\ Gt(table[2].A_green_m2, table[1].A_green_m2)

---------------------------------------------------------------------------
\* Direct calls of event_result_depths(mode, P_mm, R_mm, hyeto), the
\* hyetograph loop one pass at a time.

\* Depths, capacities and intensities: negative, zero, the loop's threshold
\* 1e-12, and decimals and whole numbers of millimetres.
RainVals == {FInt(-20), Zero, Eps12, Lit(3, 10), Lit(19, 10), FInt(20), FInt(50)}

Modes == {"depth", "hyetograph", "other"}

\* Series of up to MaxSteps (minute, mm_per_min) pairs; the empty one also
\* stands for hyeto=None.
Hyetos ==
  UNION {{[i \in 1..n |-> <<i - 1, v[i]>>] : v \in [1..n -> RainVals]} : n \in 0..MaxSteps}

RainArgs ==
  {[fn |-> "event_result_depths", mode |-> m, P_mm |-> P, R_mm |-> R, hyeto |-> h] :
     m \in Modes, P \in RainVals, R \in RainVals, h \in Hyetos}

InitRain ==
  /\ frame = NoAreaFrame
  /\ frac = Zero
  /\ fracs = <<>>
  /\ event \in {e \in Events : e.mode = "depth" /\ e.R_mm = FInt(20) /\ e.P_mm = Zero}
  /\ pc = "rain"
  /\ err = ""
  /\ sel = NoSel
  /\ A_total = Zero
  /\ V_base = Zero
  /\ order = <<>>
  /\ rows = <<>>
  /\ table = <<>>
  /\ args \in RainArgs
  /\ ret = NoRet

CallUnchanged ==
  UNCHANGED <<frame, frac, fracs, event, err, sel, A_total, V_base, order, rows, table, args>>

RainReturn(split) ==
  [fn |-> "event_result_depths", retained |-> split.retained, overflow |-> split.overflow]

\* Faulty variant: a series is run through the loop whatever the mode is,
\* unless the mode is "depth".
RainEnterSeriesFirst ==
  /\ pc = "rain"
  /\ LET P == FMax(Zero, args.P_mm)
         R == FMax(Zero, args.R_mm)
     IN IF args.mode = "depth" \/ args.hyeto = <<>>
        THEN pc' = "returned" /\ ret' = RainReturn(DepthSplit(P, R))
        ELSE /\ pc' = "hyeto"
             /\ ret' = [capacity |-> R, retained_sum |-> Zero,
                        overflow_sum |-> Zero, i |-> 0]
  /\ CallUnchanged

\* The floors and the choice of the branch: depth mode, an empty series and
\* an unknown mode return at once, a series enters the loop.
RainEnter ==
  /\ pc = "rain"
  /\ LET P == FMax(Zero, args.P_mm)
         R == FMax(Zero, args.R_mm)
     IN IF args.mode = "depth"
        THEN pc' = "returned" /\ ret' = RainReturn(DepthSplit(P, R))
        ELSE IF args.mode = "hyetograph"
        THEN (IF args.hyeto = <<>>
              THEN pc' = "returned" /\ ret' = RainReturn(DepthSplit(P, R))
              ELSE /\ pc' = "hyeto"
                   /\ ret' = [capacity |-> R, retained_sum |-> Zero,
                              overflow_sum |-> Zero, i |-> 0])
        ELSE pc' = "returned" /\ ret' = RainReturn(DepthSplit(P, R))
  /\ CallUnchanged

\* One pass of for minute, mm_per_min in hyeto.
RainStep ==
  /\ pc = "hyeto"
  /\ ret.i < Len(args.hyeto)
  /\ \E st \in {HyetoStep(ret, args.hyeto[ret.i + 1][2])} :
        ret' = [capacity |-> st.capacity, retained_sum |-> st.retained_sum,
                overflow_sum |-> st.overflow_sum, i |-> ret.i + 1]
  /\ pc' = pc
  /\ CallUnchanged

\* After the loop: the clamp of retained_sum and the return.
RainExit ==
  /\ pc = "hyeto"
  /\ ret.i = Len(args.hyeto)
  /\ ret' = RainReturn([retained |-> FMin(ret.retained_sum, FMax(Zero, args.R_mm)),
                        overflow |-> ret.overflow_sum])
  /\ pc' = "returned"
  /\ CallUnchanged

NextRain == RainEnter \/ RainStep \/ RainExit

SpecRain == InitRain /\ [][NextRain]_vars

---------------------------------------------------------------------------
\* Properties of event_result_depths (SpecRain).

\* The depth and the capacity of the call, floored at zero.
RainP == FMax(Zero, args.P_mm)

RainR == FMax(Zero, args.R_mm)

\* C11: in depth mode retained = min(P, R) and overflow = max(0, P - R) for
\* the floored P and R, and retained + overflow = P.
C11_DepthIdentity ==
  (pc = "returned" /\ args.mode = "depth") =>
     /\ ret.retained = FMin(RainP, RainR)
     /\ ret.overflow = FMax(Zero, FSub(RainP, RainR))
     /\ FAdd(ret.retained, ret.overflow) = RainP

\* C12: in hyetograph mode a series of one step whose intensity is the
\* depth gives the result of depth mode, for every non-negative depth and
\* capacity.
C12_SingleStepAsDepth ==
  (/\ pc = "returned"
   /\ args.mode = "hyetograph"
   /\ Len(args.hyeto) = 1
   /\ Ge(args.P_mm, Zero)
   /\ Ge(args.R_mm, Zero)
   /\ args.hyeto[1][2] = args.P_mm) =>
     /\ ret.retained = FMin(args.P_mm, args.R_mm)
     /\ ret.overflow = FMax(Zero, FSub(args.P_mm, args.R_mm))

\* C13: hyetograph mode without a series, and any mode other than "depth"
\* and "hyetograph" with or without one, return the depth-mode result of
\* the floored P_mm and R_mm.
C13_FallbackToDepth ==
  (/\ pc = "returned"
   /\ \/ args.mode = "hyetograph" /\ args.hyeto = <<>>
      \/ args.mode \notin {"depth", "hyetograph"}) =>
     /\ ret.retained = FMin(RainP, RainR)
     /\ ret.overflow = FMax(Zero, FSub(RainP, RainR))

C13_Witness ==
  /\ pc = "returned"
  /\ args.mode = "other"
  /\ Len(args.hyeto) = 2
  /\ Gt(args.hyeto[1][2], args.R_mm)
  /\ Gt(args.P_mm, args.R_mm)
  /\ Gt(args.R_mm, Zero)
  /\ ret.retained = args.R_mm

\* The capacity before the step that led to the present loop state.
CapacityBefore == IF pc = "hyeto" THEN ret.capacity ELSE RainR

\* C19: whenever the loop has processed a step, 0 <= capacity <= R, the
\* capacity is not above what it was before the step,
\* retained_sum + capacity = R, and retained_sum <= R (so that the final
\* clamp changes nothing).
C19_LoopInvariant ==
  [][pc' = "hyeto" =>
       /\ Ge(ret'.capacity, Zero)
       /\ Le(ret'.capacity, RainR)
       /\ Le(ret'.capacity, CapacityBefore)
       /\ FAdd(ret'.retained_sum, ret'.capacity) = RainR
       /\ Le(ret'.retained_sum, RainR)]_vars

---------------------------------------------------------------------------
\* Direct calls of baseline_runoff and scenario_runoff_green_roofs.

HydroDepths == {FInt(-20), Zero, FInt(20), FInt(50)}

HydroCapacities == {Zero, FInt(20)}

RoofCoefficients == {Lit(9, 10), Lit(3, 2)}

GreenCoefficients == {Zero, Lit(1, 4), Lit(9, 10), Lit(3, 2)}

TotalAreas == {FInt(-20), Zero, FInt(100)}

GreenAreas == {FInt(-20), Zero, FInt(5), FInt(50), FInt(100), FInt(150)}

BaselineArgs ==
  {[fn |-> "baseline_runoff", P_mm |-> P, C_roof |-> C, A_total_m2 |-> A] :
     P \in HydroDepths, C \in RoofCoefficients, A \in TotalAreas}

ScenarioArgs ==
  {[fn |-> "scenario_runoff_green_roofs", mode |-> m, P_mm |-> P, R_mm |-> R,
    C_roof |-> C, Cg |-> G, A_total_m2 |-> A, A_green_m2 |-> g, hyeto |-> h] :
     m \in {"depth", "hyetograph"}, P \in HydroDepths, R \in HydroCapacities,
     C \in RoofCoefficients, G \in GreenCoefficients, A \in TotalAreas,
     g \in GreenAreas, h \in {<<>>, Storm}}

InitHydro ==
  /\ frame = NoAreaFrame
  /\ frac = Zero
  /\ fracs = <<>>
  /\ event \in {e \in Events : e.mode = "depth" /\ e.R_mm = FInt(20) /\ e.P_mm = Zero}
  /\ pc = "hydro"
  /\ err = ""
  /\ sel = NoSel
  /\ A_total = Zero
  /\ V_base = Zero
  /\ order = <<>>
  /\ rows = <<>>
  /\ table = <<>>
  /\ args \in BaselineArgs \cup ScenarioArgs
  /\ ret = NoRet

CallBaselineRunoff ==
  /\ pc = "hydro"
  /\ args.fn = "baseline_runoff"
  /\ ret' = [fn |-> "baseline_runoff",
             V |-> BaselineRunoff(args.P_mm, args.C_roof, args.A_total_m2)]
  /\ pc' = "returned"
  /\ CallUnchanged

CallScenarioRunoffGreenRoofs ==
  /\ pc = "hydro"
  /\ args.fn = "scenario_runoff_green_roofs"
  /\ \E scn \in {ScenarioRunoffGreenRoofs(args.mode, args.P_mm, args.R_mm, args.C_roof,
                                          args.Cg, args.A_total_m2, args.A_green_m2,
                                          args.hyeto)} :
        ret' = [fn |-> "scenario_runoff_green_roofs", V_scn |-> scn.V_scn,
                retained_m3 |-> scn.retained_m3]
  /\ pc' = "returned"
  /\ CallUnchanged

NextHydro == CallBaselineRunoff \/ CallScenarioRunoffGreenRoofs

SpecHydro == InitHydro /\ [][NextHydro]_vars

---------------------------------------------------------------------------
\* Properties of baseline_runoff and scenario_runoff_green_roofs
\* (SpecHydro).

ScenarioReturned == pc = "returned" /\ args.fn = "scenario_runoff_green_roofs"

\* C14: with a green area of 0 the scenario volume is the baseline volume
\* of the same depth, C_roof and total area, and the retained benefit is 0.
C14_NoGreenIsBaseline ==
  (ScenarioReturned /\ args.A_green_m2 = Zero) =>
     /\ ret.V_scn = BaselineRunoff(args.P_mm, args.C_roof, args.A_total_m2)
     /\ ret.retained_m3 = Zero

C14_Witness ==
  /\ ScenarioReturned
  /\ args.A_green_m2 = Zero
  /\ args.mode = "hyetograph"
  /\ args.hyeto # <<>>
  /\ Gt(args.Cg, Zero)
  /\ Gt(ret.V_scn, Zero)

\* C15: with a depth of 0 or a total area of 0, baseline_runoff returns 0
\* and scenario_runoff_green_roofs returns a scenario volume of 0 and a
\* retained benefit of 0.
C15_DegenerateZeros ==
  (pc = "returned" /\ (args.P_mm = Zero \/ args.A_total_m2 = Zero)) =>
     IF args.fn = "baseline_runoff"
     THEN ret.V = Zero
     ELSE ret.V_scn = Zero /\ ret.retained_m3 = Zero

\* The clamped arguments of a scenario call, as C20 names them.
ClampedTotal == FMax(Zero, args.A_total_m2)

ClampedGreen == FMin(ClampedTotal, FMax(Zero, args.A_green_m2))

ClampedRoofCoefficient == FMin(One, FMax(Zero, args.C_roof))

ClampedGreenCoefficient == FMin(One, FMax(Zero, args.Cg))

SplitterOverflow == EventResultDepths(args.mode, args.P_mm, args.R_mm, args.hyeto).overflow

\* overflow/1000 * Cg * G + depth/1000 * C_roof * (total - G).
ScenarioFormula ==
  FAdd(FMul(FMul(FDiv(SplitterOverflow, Thousand), ClampedGreenCoefficient), ClampedGreen),
       FMul(FMul(FDiv(FMax(Zero, args.P_mm), Thousand), ClampedRoofCoefficient),
            FSub(ClampedTotal, ClampedGreen)))

\* C20: the scenario volume is overflow/1000 * Cg * G +
\* depth/1000 * C_roof * (total - G) and the retained benefit is
\* max(0, baseline - scenario volume), with G the green area clamped to
\* [0, total area] and the coefficients clamped to [0, 1]; a green area
\* above the total gives the result of a green area equal to the total.
C20_ScenarioFormula ==
  ScenarioReturned =>
     /\ ret.V_scn = ScenarioFormula
     /\ ret.retained_m3 =
           FMax(Zero, FSub(BaselineRunoff(args.P_mm, args.C_roof, args.A_total_m2),
                           ScenarioFormula))
     /\ Gt(args.A_green_m2, ClampedTotal) =>
           \E full \in {ScenarioRunoffGreenRoofs(args.mode, args.P_mm, args.R_mm,
                                                  args.C_roof, args.Cg, args.A_total_m2,
                                                  ClampedTotal, args.hyeto)} :
              ret.V_scn = full.V_scn /\ ret.retained_m3 = full.retained_m3

C20_Witness ==
  /\ ScenarioReturned
  /\ Gt(args.A_green_m2, args.A_total_m2)
  /\ Gt(args.A_total_m2, Zero)
  /\ Gt(args.Cg, Zero)
  /\ Gt(ret.V_scn, Zero)
  /\ Gt(ret.retained_m3, Zero)

---------------------------------------------------------------------------
\* Direct calls of costs(A_green_m2, unit_cost, opex_rate, years, discount).

CostArgs ==
  {[fn |-> "costs", A_green_m2 |-> A, unit_cost |-> u, opex_rate |-> r, years |-> n,
    discount |-> d] :
     A \in {FInt(-20), Zero, FInt(50), FInt(100)},
     u \in {FInt(-5), Zero, FInt(150)},
     r \in {Lit(-1, 100), Zero, Lit(2, 100)},
     n \in {-1, 0, 1, 2, 30},
     d \in {Lit(-3, 100), Zero, Lit(3, 100)}}

InitCosts ==
  /\ frame = NoAreaFrame
  /\ frac = Zero
  /\ fracs = <<>>
  /\ event \in {e \in Events : e.mode = "depth" /\ e.R_mm = FInt(20) /\ e.P_mm = Zero}
  /\ pc = "costs"
  /\ err = ""
  /\ sel = NoSel
  /\ A_total = Zero
  /\ V_base = Zero
  /\ order = <<>>
  /\ rows = <<>>
  /\ table = <<>>
  /\ args \in CostArgs
  /\ ret = NoRet

CallCosts ==
  /\ pc = "costs"
  /\ \E c \in {Costs(args.A_green_m2, args.unit_cost, args.opex_rate, args.years,
                      args.discount)} :
        ret' = [fn |-> "costs", capex |-> c.capex, npv_opex |-> c.npv_opex,
                lifetime_total |-> c.lifetime_total]
  /\ pc' = "returned"
  /\ CallUnchanged

NextCosts == CallCosts

SpecCosts == InitCosts /\ [][NextCosts]_vars

\* C16: capex = green area * unit cost and lifetime_total = capex +
\* npv_opex, and with a discount of 0 or less npv_opex = opex_rate * capex *
\* years, years floored at 1 and the other inputs at 0.
C16_UndiscountedOpex ==
  pc = "returned" =>
     /\ ret.capex = FMul(FMax(Zero, args.A_green_m2), FMax(Zero, args.unit_cost))
     /\ ret.lifetime_total = FAdd(ret.capex, ret.npv_opex)
     /\ Le(args.discount, Zero) =>
           ret.npv_opex = FMul(FMul(FMax(Zero, args.opex_rate), ret.capex),
                               FInt(IF args.years > 1 THEN args.years ELSE 1))

C16_Witness ==
  /\ pc = "returned"
  /\ Lt(args.discount, Zero)
  /\ args.years < 1
  /\ Gt(ret.npv_opex, Zero)
  /\ Gt(ret.lifetime_total, ret.capex)

---------------------------------------------------------------------------
\* Further properties of build_green_roof_scenario_table (Spec, SpecCalls).

\* cost_per_m3 of a row is lifetime_total / retained_m3 for a benefit above
\* 1e-9 and the infinity otherwise.
CostPerVolumeGuarded(row) ==
  IF Gt(row.retained_m3, Eps9)
  THEN row.cost_per_m3 = FDiv(row.lifetime_total, row.retained_m3)
  ELSE row.cost_per_m3 = PosInf

C18_InputNotMutated == [][frame' = frame]_vars

\* A call has returned a selection that starts with a row other than the
\* first of the caller's records, which are as they were.
C18_Witness ==
  /\ pc = "returned"
  /\ Len(sel.selected) = 2
  /\ sel.selected[1] = 3
  /\ Lt(frame.area[1], frame.area[3])
  /\ Len(frame.area) = 3

\* reduction_pct of a row as scenarios.py:195-197 computes it from the row's
\* two volumes.
ReductionPct(row) ==
  IF Gt(row.V_baseline_m3, Eps12)
  THEN FDiv(FMul(Hundred, FMax(Zero, FSub(row.V_baseline_m3, row.V_scenario_m3))),
            row.V_baseline_m3)
  ELSE Zero

\* C21: every row, appended or returned, has reduction_pct =
\* 100 * max(0, V_baseline_m3 - V_scenario_m3) / V_baseline_m3 when the
\* baseline volume is above 1e-12 and 0 otherwise; with a baseline above
\* 1e-12 that is 100 * retained_m3 / V_baseline_m3 of the same row.
C21_ReductionPct ==
  \A row \in Range(rows) \cup Range(table) :
     /\ row.reduction_pct = ReductionPct(row)
     /\ Gt(row.V_baseline_m3, Eps12) =>
          row.reduction_pct = FDiv(FMul(Hundred, row.retained_m3), row.V_baseline_m3)

\* A returned table with a row of fraction 0, whose reduction is 0 on a
\* positive baseline, and a row whose reduction is between 0 and 100.
C21_Witness ==
  /\ pc = "returned"
  /\ Len(table) = 2
  /\ Gt(table[1].V_baseline_m3, Eps12)
  /\ table[1].reduction_pct = Zero
  /\ Gt(table[2].reduction_pct, Zero)
  /\ Lt(table[2].reduction_pct, Hundred)
  /\ Gt(table[2].retained_m3, Zero)

---------------------------------------------------------------------------
\* Further properties of select_green_roofs_by_fraction (SpecSelect).

\* Rows a and b of the caller's records have the same area, not NaN.
EqualArea(a, b) == frame.area[a].k # "nan" /\ frame.area[a] = frame.area[b]

\* C22: among records of equal area the selection follows the input order:
\* the selected rows of one area are in input order, and every selected row
\* comes earlier in the input than the rows of the same area left out.
C22_TiesInInputOrder ==
  pc = "returned" =>
    /\ \A i, j \in DOMAIN sel.selected :
          (i < j /\ EqualArea(sel.selected[i], sel.selected[j]))
             => sel.selected[i] < sel.selected[j]
    /\ \A s \in Range(sel.selected) :
       \A k \in DOMAIN frame.area \ Range(sel.selected) :
          EqualArea(s, k) => s < k

---------------------------------------------------------------------------
\* Further properties of event_result_depths (SpecRain).

\* The first n step intensities of the series, each floored at zero, summed
\* in series order.
RECURSIVE FlooredSum(_, _)
FlooredSum(hyeto, n) ==
  IF n = 0 THEN Zero ELSE FAdd(FlooredSum(hyeto, n - 1), FMax(Zero, hyeto[n][2]))

RainS == FlooredSum(args.hyeto, Len(args.hyeto))

\* The call was in hyetograph mode with a series and has returned.
SeriesReturned == pc = "returned" /\ args.mode = "hyetograph" /\ args.hyeto # <<>>

\* The returned pair is that of the bucket filled by the whole of S.
BucketOfSum ==
  /\ ret.retained = FMin(RainS, RainR)
  /\ ret.overflow = FMax(Zero, FSub(RainS, RainR))

RainConserved == FAdd(ret.retained, ret.overflow) = RainS

\* The same steps in any other order return the same pair.
StepOrderIndependent ==
  \A p \in RowOrders(Len(args.hyeto)) :
     EventResultDepths(args.mode, args.P_mm, args.R_mm,
                       [i \in DOMAIN args.hyeto |-> args.hyeto[p[i]]])
       = [retained |-> ret.retained, overflow |-> ret.overflow]

\* Any other total_depth_mm returns the same pair.
DepthIndependent ==
  \A P \in RainVals :
     EventResultDepths(args.mode, P, args.R_mm, args.hyeto)
       = [retained |-> ret.retained, overflow |-> ret.overflow]

\* C23: in hyetograph mode with a series, retained = min(S, R) and
\* overflow = max(0, S - R) for S the sum of the floored step intensities
\* and R the floored capacity, retained + overflow = S, and the result
\* depends neither on the order of the steps nor on total_depth_mm.
C23_HyetographAsBucket ==
  SeriesReturned =>
     /\ BucketOfSum
     /\ RainConserved
     /\ StepOrderIndependent
     /\ DepthIndependent

\* A pass of the loop, from one loop state to the next.
LoopPass == pc = "hyeto" /\ pc' = "hyeto"

\* C24: retention precedes overflow in the hyetograph loop: a pass that
\* adds to overflow_sum leaves a capacity of zero, and once overflow_sum is
\* positive the capacity is zero and no pass adds to retained_sum.
C24_RetentionPrecedesOverflow ==
  [][LoopPass =>
       /\ ret'.overflow_sum # ret.overflow_sum => ret'.capacity = Zero
       /\ Gt(ret.overflow_sum, Zero) =>
            /\ ret.capacity = Zero
            /\ ret'.retained_sum = ret.retained_sum]_vars

---------------------------------------------------------------------------
\* Properties of the table across its rows (Spec).

IsPrefix(a, b) == Len(a) <= Len(b) /\ a = SubSeq(b, 1, Len(a))

\* For one descending order of the records, the selection of the smaller
\* of any two of the build's fractions is a leading part of the selection
\* of the larger.
NestedSelections ==
  \A ord \in DescOrders(frame.area) :
  \A i, j \in DOMAIN fracs :
     Le(fracs[i], fracs[j]) =>
        IsPrefix(SelectGreenRoofsByFraction(frame, fracs[i], ord).selected,
                 SelectGreenRoofsByFraction(frame, fracs[j], ord).selected)

\* A_green_m2, capex and lifetime_total do not decrease down the table.
NonDecreasingRows ==
  \A i, j \in DOMAIN table :
     i < j => /\ Le(table[i].A_green_m2, table[j].A_green_m2)
              /\ Le(table[i].capex, table[j].capex)
              /\ Le(table[i].lifetime_total, table[j].lifetime_total)

\* C25: for valid records the selections are nested in the fraction, and
\* in the returned table A_green_m2, capex and lifetime_total are
\* non-decreasing from one row to the next.
C25_NestedAndMonotone ==
  pc = "returned" => (NestedSelections /\ NonDecreasingRows)

---------------------------------------------------------------------------
\* Further properties of scenario_runoff_green_roofs (SpecHydro).

\* The baseline volume of the scenario call's depth, C_roof and total area.
ScenarioBaseline == BaselineRunoff(args.P_mm, args.C_roof, args.A_total_m2)

\* C26: in depth mode with the clamped Cg at most the clamped C_roof, the
\* scenario volume is at most the baseline volume, so the floor at zero
\* does not act: retained = baseline - scenario volume.
C26_NoFloorWhenGreenNotWorse ==
  (/\ ScenarioReturned
   /\ args.mode = "depth"
   /\ Le(ClampedGreenCoefficient, ClampedRoofCoefficient)) =>
     /\ Le(ret.V_scn, ScenarioBaseline)
     /\ ret.retained_m3 = FSub(ScenarioBaseline, ret.V_scn)

---------------------------------------------------------------------------
\* Fractions outside [0, 1] in a table build (SpecEnds).

\* The fraction as select_green_roofs_by_fraction clamps it.
ClampFrac(f) == FMax(Zero, FMin(One, f))

\* Two rows alike in everything but coverage_frac.
SameButFraction(a, b) ==
  [a EXCEPT !.coverage_frac = Zero] = [b EXCEPT !.coverage_frac = Zero]

====
